---- MODULE Spec2Model ----
(***************************************************************************)
(* Habit tracker: HabitManager (habit_manager.py) over the SQLite access   *)
(* layer (db.py) and the period utilities (time_utils.py).                 *)
(*                                                                         *)
(* Representation                                                          *)
(*   str            a sequence of one-character strings                    *)
(*   Optional[T]    a sequence of length 0 (None) or 1                     *)
(*   datetime       [wall, off, aware]: wall-clock hours since 00:00 of    *)
(*                  proleptic ordinal day 0, UTC offset in hours, and      *)
(*                  whether tzinfo is set                                  *)
(*   ISO text       <<wall, suffix>> with suffix <<>> (naive) or <<off>>;  *)
(*                  SQLite orders TEXT columns by this text                *)
(*                                                                         *)
(* inflight holds the complete_habit calls that run concurrently, each     *)
(* with its position and what it has read; it is empty where calls are     *)
(* taken one at a time.                                                    *)
(***************************************************************************)
EXTENDS Integers, Sequences, FiniteSets, TLC

VARIABLES habits, completions, nextHabitId, nextCompletionId, failures, lost, call, prev,
          inflight

vars == <<habits, completions, nextHabitId, nextCompletionId, failures, lost, call, prev,
          inflight>>

(***************************************************************************)
(* Bounds of the model                                                     *)
(***************************************************************************)
MaxHabits == 2
MaxCompletions == 2
\* rows inserted in a run, habits and completions together
MaxRows == 3
MaxFailures == 1
NumTimes == 3

(***************************************************************************)
(* Strings                                                                 *)
(***************************************************************************)
None == <<>>
Some(x) == <<x>>
IsNone(o) == o = <<>>
Val(o) == o[1]

Whitespace == {" ", "\t", "\n"}

RECURSIVE lstrip(_)
lstrip(s) == IF s # <<>> /\ Head(s) \in Whitespace THEN lstrip(Tail(s)) ELSE s

RECURSIVE rstrip(_)
rstrip(s) ==
  IF s # <<>> /\ s[Len(s)] \in Whitespace THEN rstrip(SubSeq(s, 1, Len(s) - 1)) ELSE s

\* str.strip()
strip(s) == rstrip(lstrip(s))

UpperToLower ==
  [c \in {"A", "D", "E", "I", "K", "L", "W", "Y", "R", "U", "N", "M", "O", "T", "H"} |->
     CASE c = "A" -> "a" [] c = "D" -> "d" [] c = "E" -> "e" [] c = "I" -> "i"
       [] c = "K" -> "k" [] c = "L" -> "l" [] c = "W" -> "w" [] c = "Y" -> "y"
       [] c = "R" -> "r" [] c = "U" -> "u" [] c = "N" -> "n" [] c = "M" -> "m"
       [] c = "O" -> "o" [] c = "T" -> "t" [] c = "H" -> "h"]

\* str.lower()
lower(s) == [i \in 1..Len(s) |-> IF s[i] \in DOMAIN UpperToLower THEN UpperToLower[s[i]] ELSE s[i]]

DAILY == <<"d", "a", "i", "l", "y">>
WEEKLY == <<"w", "e", "e", "k", "l", "y">>
DAY == <<"d", "a", "y">>
WEEK == <<"w", "e", "e", "k">>

\* The ValueError raised by normalize_periodicity
Unsupported == <<"!", "V", "a", "l", "u", "e", "E", "r", "r", "o", "r">>

\* normalize_periodicity that takes an unknown value for daily instead of raising
normalize_periodicity_lenient(value) ==
  LET v == lower(strip(IF IsNone(value) THEN <<>> ELSE Val(value))) IN
  IF v \in {WEEKLY, WEEK} THEN WEEKLY ELSE DAILY

\* normalize_periodicity that compares the value as it is written
normalize_periodicity_as_written(value) ==
  LET v == IF IsNone(value) THEN <<>> ELSE Val(value) IN
  IF v \in {DAILY, DAY} THEN DAILY
  ELSE IF v \in {WEEKLY, WEEK} THEN WEEKLY
  ELSE Unsupported

\* normalize_periodicity(value), value an Optional[str]; Unsupported when it raises
normalize_periodicity(value) ==
  LET v == lower(strip(IF IsNone(value) THEN <<>> ELSE Val(value))) IN
  IF v \in {DAILY, DAY} THEN DAILY
  ELSE IF v \in {WEEKLY, WEEK} THEN WEEKLY
  ELSE Unsupported

(***************************************************************************)
(* Dates and times                                                         *)
(***************************************************************************)
HoursPerDay == 24
DaysPerWeek == 7

\* The observer's local UTC offset used by datetime.astimezone() (hours)
LocalOffset == 1

Dt(ord, hour, off) == [wall |-> ord * HoursPerDay + hour, off |-> off, aware |-> TRUE]
NaiveDt(ord, hour) == [wall |-> ord * HoursPerDay + hour, off |-> 0, aware |-> FALSE]

\* datetime.astimezone(): the same instant on the observer's wall clock
astimezone(dt) == [wall |-> dt.wall - dt.off + LocalOffset, off |-> LocalOffset, aware |-> TRUE]

\* datetime.date() as a proleptic Gregorian ordinal
date(dt) == dt.wall \div HoursPerDay

\* datetime + timedelta(days=n): wall-clock arithmetic, tzinfo kept
plus_days(dt, n) == [dt EXCEPT !.wall = dt.wall + n * HoursPerDay]

\* datetime.isoformat() and datetime.fromisoformat()
isoformat(dt) == <<dt.wall, IF dt.aware THEN <<dt.off>> ELSE <<>>>>
fromisoformat(s) ==
  [wall |-> s[1], off |-> IF s[2] = <<>> THEN 0 ELSE s[2][1], aware |-> s[2] # <<>>]

\* replace(tzinfo=timezone.utc)
replace_utc(dt) == [wall |-> dt.wall, off |-> 0, aware |-> TRUE]

\* Order of two ISO texts as strings: the date-time part first, then the
\* offset suffix (no suffix is a prefix of any suffixed text; '+' < '-').
SuffixLess(a, b) ==
  IF a = <<>> THEN b # <<>>
  ELSE IF b = <<>> THEN FALSE
  ELSE IF a[1] >= 0 /\ b[1] >= 0 THEN a[1] < b[1]
  ELSE IF a[1] >= 0 THEN TRUE
  ELSE IF b[1] >= 0 THEN FALSE
  ELSE a[1] > b[1]

IsoLess(a, b) == a[1] < b[1] \/ (a[1] = b[1] /\ SuffixLess(a[2], b[2]))

YearRange == 2024..2029

\* days before January 1st of year y
DaysBeforeYear(y) == (y - 1) * 365 + ((y - 1) \div 4) - ((y - 1) \div 100) + ((y - 1) \div 400)

YearOf(ord) == CHOOSE y \in YearRange : DaysBeforeYear(y) < ord /\ ord <= DaysBeforeYear(y + 1)

\* ordinal of the Monday that starts ISO week 1 of year y
isoweek1monday(y) ==
  LET firstday == DaysBeforeYear(y) + 1
      firstweekday == (firstday + 6) % DaysPerWeek
      week1monday == firstday - firstweekday
  IN IF firstweekday > 3 THEN week1monday + DaysPerWeek ELSE week1monday

\* date.isocalendar()[:2] of an ordinal: <<iso_year, iso_week>>
isocalendar(ord) ==
  LET year == YearOf(ord)
      w1 == isoweek1monday(year)
  IN IF ord < w1
       THEN <<year - 1, ((ord - isoweek1monday(year - 1)) \div DaysPerWeek) + 1>>
     ELSE IF (ord - w1) \div DaysPerWeek >= 52 /\ ord >= isoweek1monday(year + 1)
       THEN <<year + 1, 1>>
     ELSE <<year, ((ord - w1) \div DaysPerWeek) + 1>>

(***************************************************************************)
(* time_utils.py                                                           *)
(***************************************************************************)
\* The ValueError raised for a datetime without tzinfo
NaiveError == <<"naive">>

\* period_key(dt, periodicity): <<date>> for daily, <<iso_year, iso_week>> for weekly
period_key(dt, periodicity) ==
  IF ~dt.aware THEN NaiveError
  ELSE LET local == astimezone(dt) IN
       IF periodicity = DAILY THEN <<date(local)>> ELSE isocalendar(date(local))

is_same_period(a, b, periodicity) == period_key(a, periodicity) = period_key(b, periodicity)

\* is_next_period that takes the next week to be the week number plus one
is_next_period_week_plus_one(prv, curr, periodicity) ==
  LET prev_local == astimezone(prv)
      curr_local == astimezone(curr)
      p == isocalendar(date(prev_local))
  IN IF periodicity = DAILY
       THEN date(curr_local) = date(prev_local) + 1
       ELSE isocalendar(date(curr_local)) = <<p[1], p[2] + 1>>

\* is_next_period that takes the period before for the next one as well
is_next_period_either_way(prv, curr, periodicity) ==
  LET prev_local == astimezone(prv)
      curr_local == astimezone(curr)
  IN IF periodicity = DAILY
       THEN date(curr_local) \in {date(prev_local) + 1, date(prev_local) - 1}
       ELSE isocalendar(date(curr_local)) \in
              {isocalendar(date(plus_days(prev_local, DaysPerWeek))),
               isocalendar(date(plus_days(prev_local, 0 - DaysPerWeek)))}

\* is_next_period(prev, curr, periodicity), both timezone-aware
is_next_period(prv, curr, periodicity) ==
  LET prev_local == astimezone(prv)
      curr_local == astimezone(curr)
  IN IF periodicity = DAILY
       THEN date(curr_local) = date(prev_local) + 1
       ELSE isocalendar(date(curr_local)) = isocalendar(date(plus_days(prev_local, DaysPerWeek)))

\* is_due(last_completed_at, now, periodicity); NaiveError when period_key raises
is_due(last_completed_at, now, periodicity) ==
  IF IsNone(last_completed_at) THEN TRUE
  ELSE IF ~Val(last_completed_at).aware \/ ~now.aware THEN NaiveError
  ELSE period_key(Val(last_completed_at), periodicity) # period_key(now, periodicity)

(***************************************************************************)
(* db.py: rows and queries.  A habits table is a function from the ids of  *)
(* its rows to the rows; a completions table is a set of rows.             *)
(***************************************************************************)
\* _parse_iso_dt that converts what it parsed to UTC
parse_iso_dt_as_utc(value) ==
  IF IsNone(value) THEN None
  ELSE LET dt == fromisoformat(Val(value)) IN
       Some([wall |-> dt.wall - dt.off, off |-> 0, aware |-> TRUE])

\* _parse_iso_dt(value): an Optional ISO text to an Optional datetime
parse_iso_dt(value) ==
  IF IsNone(value) THEN None
  ELSE LET dt == fromisoformat(Val(value)) IN
       Some(IF ~dt.aware THEN replace_utc(dt) ELSE dt)

\* habit_row_to_model(row)
habit_row_to_model(id, row) ==
  [id |-> id, user_id |-> row.user_id, title |-> row.title, description |-> row.description,
   periodicity |-> IF row.periodicity = <<>> THEN DAILY ELSE row.periodicity,
   last_completed_at |-> parse_iso_dt(row.last_completed_at), streak |-> row.streak]

\* insert_habit that stores a streak of 1
new_habit_row_streak_one(user_id, title, description, norm) ==
  [user_id |-> user_id, title |-> title, description |-> description, periodicity |-> norm,
   last_completed_at |-> None, streak |-> 1]

\* insert_habit: the row stored for a new habit (periodicity already normalized)
new_habit_row(user_id, title, description, norm) ==
  [user_id |-> user_id, title |-> title, description |-> description, periodicity |-> norm,
   last_completed_at |-> None, streak |-> 0]

\* update_habit that sets periodicity, last_completed_at and streak only
update_habit_keeps_names(H, habit_id, user_id, title, description, periodicity, last_completed_at_iso, streak) ==
  LET norm == normalize_periodicity(Some(periodicity)) IN
  IF habit_id \in DOMAIN H /\ H[habit_id].user_id = user_id
    THEN [H EXCEPT ![habit_id] =
            [@ EXCEPT !.periodicity = norm, !.last_completed_at = last_completed_at_iso,
                      !.streak = streak]]
    ELSE H

\* update_habit: UPDATE habits SET ... WHERE id = ? AND user_id = ?
update_habit(H, habit_id, user_id, title, description, periodicity, last_completed_at_iso, streak) ==
  LET norm == normalize_periodicity(Some(periodicity)) IN
  IF habit_id \in DOMAIN H /\ H[habit_id].user_id = user_id
    THEN [H EXCEPT ![habit_id] =
            [user_id |-> user_id, title |-> title, description |-> description,
             periodicity |-> norm, last_completed_at |-> last_completed_at_iso,
             streak |-> streak]]
    ELSE H

\* delete_habit: DELETE FROM habits WHERE id = ? AND user_id = ?
delete_habit_rows(H, habit_id, user_id) ==
  [i \in {j \in DOMAIN H : ~(j = habit_id /\ H[j].user_id = user_id)} |-> H[i]]

\* a completions table without ON DELETE CASCADE
no_cascade(C, H) == C

\* completions(habit_id) ... ON DELETE CASCADE
cascade(C, H) == {r \in C : r.habit_id \in DOMAIN H}

\* a connection without PRAGMA foreign_keys = ON
foreign_keys_off(H, habit_id) == TRUE

\* completions.habit_id REFERENCES habits(id), with PRAGMA foreign_keys = ON:
\* may a row with this habit_id be inserted
foreign_key_ok(H, habit_id) == habit_id \in DOMAIN H

\* insert_completion that keeps one row per habit and timestamp
insert_completion_unique(C, id, habit_id, completed_at_iso) ==
  IF \E r \in C : r.habit_id = habit_id /\ r.completed_at = completed_at_iso
    THEN C
    ELSE C \cup {[id |-> id, habit_id |-> habit_id, completed_at |-> completed_at_iso]}

\* insert_completion: INSERT INTO completions (habit_id, completed_at)
insert_completion(C, id, habit_id, completed_at_iso) ==
  C \cup {[id |-> id, habit_id |-> habit_id, completed_at |-> completed_at_iso]}

\* get_last_completion: ORDER BY completed_at DESC LIMIT 1
get_last_completion(C, habit_id) ==
  LET rows == {r \in C : r.habit_id = habit_id} IN
  IF rows = {} THEN None
  ELSE Some((CHOOSE r \in rows :
               \A q \in rows : ~IsoLess(r.completed_at, q.completed_at)).completed_at)

\* list_completions(habit_id), as a set of rows
list_completions(C, habit_id) == {r \in C : r.habit_id = habit_id}

(***************************************************************************)
(* habit_manager.py: the parts of HabitManager that compute                *)
(***************************************************************************)
\* get_habit that does not compare the row's user_id
owned_any_user(H, user_id, habit_id) == habit_id \in DOMAIN H

\* get_habit: the row exists and belongs to the manager's user
owned(H, user_id, habit_id) == habit_id \in DOMAIN H /\ H[habit_id].user_id = user_id

\* edit_habit that compares the periodicity strings as written
periodicity_changed_as_written(old_periodicity, periodicity) ==
  strip(Val(periodicity)) # old_periodicity

\* edit_habit: does the edit give the habit another normalized periodicity
\* (periodicity an Optional[str] that is neither None nor blank)
periodicity_changed(old_periodicity, periodicity) ==
  normalize_periodicity(Some(strip(Val(periodicity)))) # normalize_periodicity(Some(old_periodicity))

\* edit_habit: normalize_periodicity raises on the supplied periodicity
edit_raises(periodicity) ==
  /\ ~IsNone(periodicity)
  /\ strip(Val(periodicity)) # <<>>
  /\ normalize_periodicity(Some(strip(Val(periodicity)))) = Unsupported

\* edit_habit that treats a blank description as it treats a blank title
edited_keeps_blank_description(habit, title, description, periodicity) ==
  LET h1 == IF ~IsNone(title) /\ strip(Val(title)) # <<>>
              THEN [habit EXCEPT !.title = strip(Val(title))] ELSE habit
      h2 == IF ~IsNone(description) /\ strip(Val(description)) # <<>>
              THEN [h1 EXCEPT !.description = strip(Val(description))] ELSE h1
  IN IF ~IsNone(periodicity) /\ strip(Val(periodicity)) # <<>>
       THEN IF periodicity_changed(habit.periodicity, periodicity)
              THEN [h2 EXCEPT !.periodicity = strip(Val(periodicity)),
                              !.streak = 0, !.last_completed_at = None]
              ELSE [h2 EXCEPT !.periodicity = strip(Val(periodicity))]
       ELSE h2

\* edit_habit: the in-memory habit after the three optional arguments are
\* applied (when normalize_periodicity does not raise)
edited(habit, title, description, periodicity) ==
  LET h1 == IF ~IsNone(title) /\ strip(Val(title)) # <<>>
              THEN [habit EXCEPT !.title = strip(Val(title))] ELSE habit
      h2 == IF ~IsNone(description)
              THEN [h1 EXCEPT !.description = strip(Val(description))] ELSE h1
  IN IF ~IsNone(periodicity) /\ strip(Val(periodicity)) # <<>>
       THEN IF periodicity_changed(habit.periodicity, periodicity)
              THEN [h2 EXCEPT !.periodicity = strip(Val(periodicity)),
                              !.streak = 0, !.last_completed_at = None]
              ELSE [h2 EXCEPT !.periodicity = strip(Val(periodicity))]
       ELSE h2

\* complete_habit: the last completion, from the habit record or else the table
last_dt_of(habit, C) ==
  IF ~IsNone(habit.last_completed_at) THEN habit.last_completed_at
  ELSE parse_iso_dt(get_last_completion(C, habit.id))

\* complete_habit that counts every completion of a period
new_streak_per_completion(streak, last_dt, completed_at, periodicity) ==
  IF IsNone(last_dt) THEN 1
  ELSE IF period_key(Val(last_dt), periodicity) = period_key(completed_at, periodicity)
    THEN streak + 1
  ELSE IF is_next_period(Val(last_dt), completed_at, periodicity) THEN streak + 1
  ELSE 1

\* complete_habit that keeps the streak over a gap
new_streak_over_gaps(streak, last_dt, completed_at, periodicity) ==
  IF IsNone(last_dt) THEN 1
  ELSE IF period_key(Val(last_dt), periodicity) = period_key(completed_at, periodicity)
    THEN streak
  ELSE streak + 1

\* complete_habit: the streak after a completion at completed_at
new_streak(streak, last_dt, completed_at, periodicity) ==
  IF IsNone(last_dt) THEN 1
  ELSE IF period_key(Val(last_dt), periodicity) = period_key(completed_at, periodicity)
    THEN streak
  ELSE IF is_next_period(Val(last_dt), completed_at, periodicity) THEN streak + 1
  ELSE 1

\* list_habits: the user's habits (as models)
list_habits(H, user_id) ==
  {habit_row_to_model(i, H[i]) : i \in {j \in DOMAIN H : H[j].user_id = user_id}}

\* due_habits: the ids of the user's habits that are due at now
due_habits(H, user_id, now) ==
  {h.id : h \in {g \in list_habits(H, user_id) :
                   is_due(g.last_completed_at, now, normalize_periodicity(Some(g.periodicity)))}}

\* due_habits raises when period_key meets a datetime without tzinfo
due_habits_raises(H, user_id, now) ==
  \E g \in list_habits(H, user_id) : ~IsNone(g.last_completed_at) /\ ~now.aware

(***************************************************************************)
(* Inputs                                                                  *)
(***************************************************************************)
Users == {1, 2}

HabitIds == 1..MaxHabits

\* Thu 2026-12-31 09:00Z (ISO 2026-W53); Sat 2027-01-02 08:00+12:00, which is
\* Fri 2027-01-01 20:00Z (ISO 2026-W53); Mon 2027-01-04 10:00Z (ISO 2027-W01);
\* Mon 2027-01-25 10:00Z (ISO 2027-W04); Thu 2026-12-31 20:00Z;
\* Mon 2027-01-11 10:00Z (ISO 2027-W02)
SampleDts ==
  << Dt(739981, 9, 0), Dt(739983, 8, 12), Dt(739985, 10, 0), Dt(740006, 10, 0),
     Dt(739981, 20, 0), Dt(739992, 10, 0) >>

AwareTimes == {SampleDts[i] : i \in 1..NumTimes}

Times == AwareTimes \cup {NaiveDt(739981, 9)}

CreateTitles == { <<" ", "W", " ">> }
CreateDescriptions == { <<" ", "d">> }
CreatePeriodicities ==
  { <<"D", "a", "i", "l", "y">>, <<" ", "w", "e", "e", "k", " ">>,
    <<"m", "o", "n", "t", "h", "l", "y">> }

EditPeriodicities ==
  { None, Some(<<" ", " ">>), Some(<<"D", "A", "Y">>),
    Some(<<"W", "e", "e", "k", "l", "y">>), Some(<<"y", "e", "a", "r">>) }

\* <<title, description, periodicity>> arguments of edit_habit
EditArgs == {<<None, None, p>> : p \in EditPeriodicities}

(***************************************************************************)
(* State                                                                   *)
(***************************************************************************)
NoPrev == [habits |-> <<>>, completions |-> {}]

\* call is the call a run is observed at, with prev the storage it started
\* from; a run ends at the call it is observed at.
NoCall ==
  [op |-> "init", user_id |-> 0, habit_id |-> 0, title |-> None, description |-> None,
   periodicity |-> None, at |-> None, outcome |-> "ok", ret |-> None, lost |-> None]

Init ==
  /\ habits = <<>>
  /\ completions = {}
  /\ nextHabitId = 1
  /\ nextCompletionId = 1
  /\ failures = 0
  /\ lost = None
  /\ call = NoCall
  /\ prev = NoPrev
  /\ inflight = <<>>

\* what every call records: its arguments, its outcome and returned value,
\* and the storage it started from
Called(op, user_id, habit_id, title, description, periodicity, at, outcome, ret) ==
  /\ \/ /\ call' = [op |-> op, user_id |-> user_id, habit_id |-> habit_id, title |-> title,
                    description |-> description, periodicity |-> periodicity, at |-> at,
                    outcome |-> outcome, ret |-> ret, lost |-> lost]
        /\ prev' = [habits |-> habits, completions |-> completions]
     \/ UNCHANGED <<call, prev>>

\* no call of the run has been observed yet
Running == call = NoCall

RowsInserted == (nextHabitId - 1) + (nextCompletionId - 1)

StorageUnchanged == UNCHANGED <<habits, completions, nextHabitId, nextCompletionId>>

(***************************************************************************)
(* HabitManager(user_id): one action per method call                       *)
(***************************************************************************)
\* create_habit(title, description, periodicity)
CreateHabit(user_id, title, description, periodicity) ==
  LET norm == normalize_periodicity(Some(periodicity)) IN
  /\ Running
  /\ IF norm = Unsupported
       THEN /\ StorageUnchanged
            /\ Called("create_habit", user_id, 0, Some(title), Some(description),
                      Some(periodicity), None, "InvalidPeriodicity", None)
       ELSE /\ nextHabitId <= MaxHabits
            /\ RowsInserted < MaxRows
            /\ habits' = [i \in DOMAIN habits \cup {nextHabitId} |->
                             IF i = nextHabitId
                               THEN new_habit_row(user_id, strip(title), strip(description), norm)
                               ELSE habits[i]]
            /\ nextHabitId' = nextHabitId + 1
            /\ UNCHANGED <<completions, nextCompletionId>>
            /\ Called("create_habit", user_id, nextHabitId, Some(title), Some(description),
                      Some(periodicity), None, "ok", Some(nextHabitId))
  /\ lost' = None
  /\ UNCHANGED <<failures, inflight>>

\* get_habit(habit_id)
GetHabit(user_id, habit_id) ==
  /\ Running
  /\ StorageUnchanged
  /\ IF owned(habits, user_id, habit_id)
       THEN Called("get_habit", user_id, habit_id, None, None, None, None, "ok",
                   Some(habit_row_to_model(habit_id, habits[habit_id])))
       ELSE Called("get_habit", user_id, habit_id, None, None, None, None,
                   "NotFoundOrNotOwned", None)
  /\ lost' = None
  /\ UNCHANGED <<failures, inflight>>

\* edit_habit(habit_id, title, description, periodicity)
EditHabit(user_id, habit_id, title, description, periodicity) ==
  /\ Running
  /\ IF ~owned(habits, user_id, habit_id)
       THEN /\ StorageUnchanged
            /\ Called("edit_habit", user_id, habit_id, title, description, periodicity, None,
                      "NotFoundOrNotOwned", None)
     ELSE IF edit_raises(periodicity)
       THEN /\ StorageUnchanged
            /\ Called("edit_habit", user_id, habit_id, title, description, periodicity, None,
                      "InvalidPeriodicity", None)
     ELSE LET habit == edited(habit_row_to_model(habit_id, habits[habit_id]),
                              title, description, periodicity)
          IN /\ habits' = update_habit(habits, habit.id, user_id, habit.title,
                                       habit.description, habit.periodicity,
                                       IF IsNone(habit.last_completed_at) THEN None
                                       ELSE Some(isoformat(Val(habit.last_completed_at))),
                                       habit.streak)
             /\ UNCHANGED <<completions, nextHabitId, nextCompletionId>>
             /\ Called("edit_habit", user_id, habit_id, title, description, periodicity, None,
                       "ok", None)
  /\ lost' = None
  /\ UNCHANGED <<failures, inflight>>

\* delete_habit(habit_id)
DeleteHabit(user_id, habit_id) ==
  /\ Running
  /\ habits' = delete_habit_rows(habits, habit_id, user_id)
  /\ completions' = cascade(completions, habits')
  /\ UNCHANGED <<nextHabitId, nextCompletionId>>
  /\ Called("delete_habit", user_id, habit_id, None, None, None, None, "ok",
            Some(DOMAIN habits' # DOMAIN habits))
  /\ lost' = None
  /\ UNCHANGED <<failures, inflight>>

\* complete_habit(habit_id, completed_at=completed_at)
CompleteHabit(user_id, habit_id, completed_at) ==
  /\ Running
  /\ IF ~owned(habits, user_id, habit_id)
       THEN /\ StorageUnchanged
            /\ Called("complete_habit", user_id, habit_id, None, None, None,
                      Some(completed_at), "NotFoundOrNotOwned", None)
     ELSE IF ~completed_at.aware
       THEN /\ StorageUnchanged
            /\ Called("complete_habit", user_id, habit_id, None, None, None,
                      Some(completed_at), "NaiveTimestamp", None)
     ELSE LET habit == habit_row_to_model(habit_id, habits[habit_id])
              periodicity == normalize_periodicity(Some(habit.periodicity))
              streak == new_streak(habit.streak, last_dt_of(habit, completions),
                                   completed_at, periodicity)
          IN /\ nextCompletionId <= MaxCompletions
             /\ RowsInserted < MaxRows
             /\ completions' = insert_completion(completions, nextCompletionId, habit.id,
                                                 isoformat(completed_at))
             /\ nextCompletionId' = nextCompletionId + 1
             /\ habits' = update_habit(habits, habit.id, user_id, habit.title,
                                       habit.description, habit.periodicity,
                                       Some(isoformat(completed_at)), streak)
             /\ UNCHANGED nextHabitId
             /\ Called("complete_habit", user_id, habit_id, None, None, None,
                       Some(completed_at), "ok", Some(nextCompletionId))
  /\ lost' = None
  /\ UNCHANGED <<failures, inflight>>

\* complete_habit whose update_habit fails in the storage layer after
\* insert_completion has committed
CompleteHabitUpdateFails(user_id, habit_id, completed_at) ==
  /\ Running
  /\ owned(habits, user_id, habit_id)
  /\ completed_at.aware
  /\ failures < MaxFailures
  /\ nextCompletionId <= MaxCompletions
  /\ RowsInserted < MaxRows
  /\ LET habit == habit_row_to_model(habit_id, habits[habit_id])
         periodicity == normalize_periodicity(Some(habit.periodicity))
         streak == new_streak(habit.streak, last_dt_of(habit, completions),
                              completed_at, periodicity)
     IN /\ completions' = insert_completion(completions, nextCompletionId, habit.id,
                                            isoformat(completed_at))
        /\ lost' = Some([habit_id |-> habit.id,
                         last_completed_at |-> Some(completed_at), streak |-> streak])
  /\ nextCompletionId' = nextCompletionId + 1
  /\ failures' = failures + 1
  /\ UNCHANGED <<habits, nextHabitId, inflight>>
  /\ Called("complete_habit", user_id, habit_id, None, None, None, Some(completed_at),
            "StorageError", None)

\* due_habits(now=now)
DueHabits(user_id, now) ==
  /\ Running
  /\ StorageUnchanged
  /\ IF due_habits_raises(habits, user_id, now)
       THEN Called("due_habits", user_id, 0, None, None, None, Some(now),
                   "NaiveTimestamp", None)
       ELSE Called("due_habits", user_id, 0, None, None, None, Some(now), "ok",
                   Some(due_habits(habits, user_id, now)))
  /\ lost' = None
  /\ UNCHANGED <<failures, inflight>>

Next ==
  \/ \E u \in Users, t \in CreateTitles, d \in CreateDescriptions, p \in CreatePeriodicities :
       CreateHabit(u, t, d, p)
  \/ \E u \in Users, h \in HabitIds : GetHabit(u, h)
  \/ \E u \in Users, h \in HabitIds, a \in EditArgs : EditHabit(u, h, a[1], a[2], a[3])
  \/ \E u \in Users, h \in HabitIds : DeleteHabit(u, h)
  \/ \E u \in Users, h \in HabitIds, at \in Times : CompleteHabit(u, h, at)
  \/ \E u \in Users, h \in HabitIds, at \in Times : CompleteHabitUpdateFails(u, h, at)
  \/ \E u \in Users, now \in Times : DueHabits(u, now)

Spec == Init /\ [][Next]_vars

(***************************************************************************)
(* Vocabulary of the properties                                            *)
(***************************************************************************)
\* the observed call is a complete_habit that returned
CompletedOk == call.op = "complete_habit" /\ call.outcome = "ok"

\* the habit the observed call names, before and after the call
Before == habit_row_to_model(call.habit_id, prev.habits[call.habit_id])
After == habit_row_to_model(call.habit_id, habits[call.habit_id])

\* the completion timestamps of a habit's log, and the number of its entries
LogSize(C, habit_id) == Cardinality(list_completions(C, habit_id))

\* the local calendar day and the ISO week of an instant
LocalDay(dt) == (dt.wall - dt.off + LocalOffset) \div HoursPerDay
LocalWeek(dt) == isocalendar(LocalDay(dt))

\* the number of ISO weeks of an ISO year, and the ISO week after a week
WeeksInIsoYear(y) == (isoweek1monday(y + 1) - isoweek1monday(y)) \div DaysPerWeek
WeekAfter(k) == IF k[2] < WeeksInIsoYear(k[1]) THEN <<k[1], k[2] + 1>> ELSE <<k[1] + 1, 1>>

SamePeriod(a, b, periodicity) ==
  IF periodicity = DAILY THEN LocalDay(a) = LocalDay(b) ELSE LocalWeek(a) = LocalWeek(b)

FollowingPeriod(a, b, periodicity) ==
  IF periodicity = DAILY THEN LocalDay(b) = LocalDay(a) + 1
  ELSE LocalWeek(b) = WeekAfter(LocalWeek(a))

\* the strings that name a periodicity, after trimming and lower-casing
Synonyms(periodicity) == IF periodicity = DAILY THEN {DAILY, DAY} ELSE {WEEKLY, WEEK}
Means(text, periodicity) == lower(strip(text)) \in Synonyms(periodicity)
IsSynonym(text) == Means(text, DAILY) \/ Means(text, WEEKLY)

\* the observed call left the habits and completions tables as they were
StorageAsBefore == habits = prev.habits /\ completions = prev.completions

\* the habit the observed call names does not exist or is another user's
NotOwnHabit ==
  \/ call.habit_id \notin DOMAIN prev.habits
  \/ prev.habits[call.habit_id].user_id # call.user_id

\* the call added exactly one row to the completions table: a row of the
\* habit, stamped with the call's timestamp, under an id no row had
OneEntryAppended ==
  \E r \in completions :
    /\ completions = prev.completions \cup {r}
    /\ r \notin prev.completions
    /\ \A q \in prev.completions : q.id # r.id
    /\ r.habit_id = call.habit_id
    /\ r.completed_at = isoformat(Val(call.at))

\* the observed complete_habit found the habit's last_completed_at set
LastWasSet == CompletedOk /\ ~IsNone(Before.last_completed_at)

(***************************************************************************)
(* Streak laws of complete_habit                                           *)
(***************************************************************************)
\* C1: a successful complete_habit on a habit whose last_completed_at is set,
\* at a timestamp in the same period as last_completed_at (same local day
\* for daily, same ISO week for weekly), leaves streak as it was and adds
\* one new, distinct entry to the completion log.
C1_SamePeriodKeepsStreak ==
  (LastWasSet /\ SamePeriod(Val(Before.last_completed_at), Val(call.at),
                            normalize_periodicity(Some(Before.periodicity))))
    => /\ After.streak = Before.streak
       /\ OneEntryAppended
       /\ LogSize(completions, call.habit_id) = LogSize(prev.completions, call.habit_id) + 1

\* a weekly habit completed a second time in the same ISO week, at another
\* instant: the log holds two entries of that week
C1_Witness ==
  /\ LastWasSet
  /\ Before.periodicity = WEEKLY
  /\ Val(call.at) # Val(Before.last_completed_at)
  /\ LocalWeek(Val(call.at)) = LocalWeek(Val(Before.last_completed_at))
  /\ Before.streak = 1
  /\ After.streak = 1
  /\ LogSize(completions, call.habit_id) = 2

\* C2: a successful complete_habit on a habit whose last_completed_at is set,
\* at a timestamp in the period right after the period of last_completed_at
\* (next local day for daily, next ISO week for weekly), sets streak to the
\* previous streak plus one.
C2_NextPeriodIncrements ==
  (LastWasSet /\ FollowingPeriod(Val(Before.last_completed_at), Val(call.at),
                                 normalize_periodicity(Some(Before.periodicity))))
    => After.streak = Before.streak + 1

\* a weekly habit completed in the last ISO week of 2026 and then in ISO week
\* 1 of 2027: two completions in two consecutive periods give streak 2
C2_Witness ==
  /\ LastWasSet
  /\ Before.periodicity = WEEKLY
  /\ LocalWeek(Val(Before.last_completed_at)) = <<2026, 53>>
  /\ LocalWeek(Val(call.at)) = <<2027, 1>>
  /\ LogSize(completions, call.habit_id) = 2
  /\ After.streak = 2

C4_StreakZeroIffNeverCompleted ==
  failures = 0 =>
    \A i \in DOMAIN habits : (habits[i].streak = 0) <=> IsNone(habits[i].last_completed_at)

\* C5: every successful complete_habit appends exactly one entry, stamped
\* completed_at, to the habit's completion log, keeps every existing entry,
\* and sets the habit's last_completed_at to completed_at.
C5_CompletionAlwaysLogged ==
  CompletedOk =>
    /\ OneEntryAppended
    /\ After.last_completed_at = call.at
    /\ habits[call.habit_id].last_completed_at = Some(isoformat(Val(call.at)))

\* a backdated completion (earlier than the last one, so the reset branch) on
\* a habit whose log already holds an entry
C5_Witness ==
  /\ LastWasSet
  /\ LocalDay(Val(call.at)) < LocalDay(Val(Before.last_completed_at))
  /\ LogSize(prev.completions, call.habit_id) = 1
  /\ LogSize(completions, call.habit_id) = 2
  /\ After.streak = 1
  /\ After.last_completed_at = call.at

(***************************************************************************)
(* edit_habit, failures, ownership, validation, due                        *)
(***************************************************************************)
\* C6: a successful edit_habit sets streak to 0 and clears last_completed_at
\* when the supplied periodicity names another periodicity than the habit's,
\* keeps both otherwise (a synonym or another casing of the habit's own
\* periodicity included), and in both cases leaves the completion log as it was.
C6_EditResetsOnPeriodicityChange ==
  (call.op = "edit_habit" /\ call.outcome = "ok") =>
    LET changes == /\ ~IsNone(call.periodicity)
                   /\ IsSynonym(Val(call.periodicity))
                   /\ ~Means(Val(call.periodicity), Before.periodicity)
    IN /\ changes => (After.streak = 0 /\ IsNone(After.last_completed_at))
       /\ ~changes => /\ After.streak = Before.streak
                      /\ After.last_completed_at = Before.last_completed_at
       /\ completions = prev.completions

\* a daily habit with streak 2 and two log entries edited to weekly
C6_Witness ==
  /\ call.op = "edit_habit"
  /\ call.outcome = "ok"
  /\ Before.periodicity = DAILY
  /\ Before.streak = 2
  /\ After.periodicity = WEEKLY
  /\ After.streak = 0
  /\ IsNone(After.last_completed_at)
  /\ LogSize(completions, call.habit_id) = 2

\* C7: when a complete_habit failed after its log entry was appended and
\* before the habit record was updated, the next complete_habit of that habit
\* computes the streak it would have computed had the failed call finished
\* both writes.
C7_FailedUpdateDoesNotSurvive ==
  (CompletedOk /\ ~IsNone(call.lost) /\ Val(call.lost).habit_id = call.habit_id) =>
    After.streak = new_streak(Val(call.lost).streak, Val(call.lost).last_completed_at,
                              Val(call.at), normalize_periodicity(Some(Before.periodicity)))

\* C8 as claimed: get_habit, edit_habit, complete_habit and delete_habit on a
\* habit that does not exist or is another user's all fail with the
\* not-found-or-not-owned error and change nothing.
C8_Claimed_AllFourRaise ==
  (call.op \in {"get_habit", "edit_habit", "complete_habit", "delete_habit"} /\ NotOwnHabit)
    => (call.outcome = "NotFoundOrNotOwned" /\ StorageAsBefore)

\* C8: get_habit, edit_habit and complete_habit on a habit that does not
\* exist or is another user's fail with the not-found-or-not-owned error,
\* delete_habit returns False there without an error, and all four leave
\* every habit record and every completion-log entry as it was.
C8_OwnershipGuardsEveryCall ==
  (call.op \in {"get_habit", "edit_habit", "complete_habit", "delete_habit"} /\ NotOwnHabit)
    => /\ StorageAsBefore
       /\ call.op # "delete_habit" => call.outcome = "NotFoundOrNotOwned"
       /\ call.op = "delete_habit" => (call.outcome = "ok" /\ call.ret = Some(FALSE))

\* complete_habit, with a valid timestamp, on another user's habit that has
\* a log entry already
C8_Witness ==
  /\ call.op = "complete_habit"
  /\ call.habit_id \in DOMAIN prev.habits
  /\ prev.habits[call.habit_id].user_id # call.user_id
  /\ Val(call.at).aware
  /\ LogSize(prev.completions, call.habit_id) = 1
  /\ call.outcome = "NotFoundOrNotOwned"

\* C9 as claimed: complete_habit with a naive timestamp, and create_habit or
\* edit_habit with a periodicity string that is no daily/weekly synonym, raise
\* an error and leave storage as it was.
C9_Claimed_EveryBadPeriodicityRaises ==
  (\/ call.op = "complete_habit" /\ ~Val(call.at).aware
   \/ /\ call.op \in {"create_habit", "edit_habit"}
      /\ ~IsNone(call.periodicity)
      /\ ~IsSynonym(Val(call.periodicity)))
    => (call.outcome # "ok" /\ StorageAsBefore)

\* C9: complete_habit with a naive timestamp, create_habit with a periodicity
\* string that is no daily/weekly synonym, and edit_habit with a periodicity
\* string that is not blank and no daily/weekly synonym, raise an error and
\* leave storage as it was.
C9_ValidationErrorsChangeNothing ==
  (\/ call.op = "complete_habit" /\ ~Val(call.at).aware
   \/ /\ call.op = "create_habit"
      /\ ~IsSynonym(Val(call.periodicity))
   \/ /\ call.op = "edit_habit"
      /\ ~IsNone(call.periodicity)
      /\ strip(Val(call.periodicity)) # <<>>
      /\ ~IsSynonym(Val(call.periodicity)))
    => (call.outcome # "ok" /\ StorageAsBefore)

\* edit_habit of one's own habit, which has a streak, with an unknown periodicity
C9_Witness ==
  /\ call.op = "edit_habit"
  /\ ~NotOwnHabit
  /\ ~IsNone(call.periodicity)
  /\ strip(Val(call.periodicity)) # <<>>
  /\ ~IsSynonym(Val(call.periodicity))
  /\ prev.habits[call.habit_id].streak = 1
  /\ call.outcome = "InvalidPeriodicity"

\* C10: due_habits(now) returns exactly the user's habits whose completion
\* log holds no entry in the period (local day for daily, ISO week for
\* weekly) that contains now, when no call failed in the storage layer.
C10_DueIffNoCompletionThisPeriod ==
  (call.op = "due_habits" /\ call.outcome = "ok" /\ Val(call.at).aware /\ failures = 0) =>
    call.ret = Some({i \in DOMAIN habits :
                      /\ habits[i].user_id = call.user_id
                      /\ \A r \in list_completions(completions, i) :
                            ~SamePeriod(Val(parse_iso_dt(Some(r.completed_at))), Val(call.at),
                                        habits[i].periodicity)})

(***************************************************************************)
(* The streak and the completion log                                       *)
(***************************************************************************)
\* the instant of a datetime, in hours
Instant(dt) == dt.wall - dt.off

\* the completion comes no earlier than any entry of the habit's log
InOrder(habit_id, completed_at) ==
  \A r \in list_completions(completions, habit_id) :
    Instant(Val(parse_iso_dt(Some(r.completed_at)))) <= Instant(completed_at)

\* the edit does not give the habit another periodicity
KeepsPeriodicity(habit_id, periodicity) ==
  IF IsNone(periodicity) \/ habit_id \notin DOMAIN habits THEN TRUE
  ELSE IF ~IsSynonym(Val(periodicity)) THEN TRUE
  ELSE Means(Val(periodicity), habits[habit_id].periodicity)

\* Runs in which every complete_habit succeeds, the completions of a habit
\* come in non-decreasing order of time and no edit changes a periodicity
NextLog ==
  \/ \E u \in Users, t \in CreateTitles, d \in CreateDescriptions, p \in CreatePeriodicities :
       CreateHabit(u, t, d, p)
  \/ \E u \in Users, h \in HabitIds, a \in EditArgs :
       KeepsPeriodicity(h, a[3]) /\ EditHabit(u, h, a[1], a[2], a[3])
  \/ \E u \in Users, h \in HabitIds : DeleteHabit(u, h)
  \/ \E u \in Users, h \in HabitIds, at \in AwareTimes :
       InOrder(h, at) /\ CompleteHabit(u, h, at)

SpecLog == Init /\ [][NextLog]_vars

\* the number of a period on the calendar: the local day, or the week of
\* Mondays it lies in (proleptic ordinal 1 is a Monday)
PeriodIndex(dt, periodicity) ==
  IF periodicity = DAILY THEN LocalDay(dt) ELSE (LocalDay(dt) - 1) \div DaysPerWeek

\* the periods that hold at least one entry of the habit's log
LogPeriods(C, habit_id, periodicity) ==
  {PeriodIndex(Val(parse_iso_dt(Some(r.completed_at))), periodicity) :
     r \in list_completions(C, habit_id)}

\* the number of consecutive periods with an entry that end at the period of
\* the most recent entry
LogStreak(C, habit_id, periodicity) ==
  LET P == LogPeriods(C, habit_id, periodicity) IN
  IF P = {} THEN 0
  ELSE LET last == CHOOSE x \in P : \A y \in P : y <= x
       IN CHOOSE n \in 1..Cardinality(P) :
            /\ \A k \in 0..(n - 1) : (last - k) \in P
            /\ (last - n) \notin P

\* C11: when every complete_habit succeeds, the completions of a habit come
\* in non-decreasing order of time and its periodicity is never changed, the
\* stored streak of every habit equals the number of consecutive periods,
\* ending at the period of its most recent log entry, that hold a log entry.
C11_StreakMatchesLog ==
  \A i \in DOMAIN habits : habits[i].streak = LogStreak(completions, i, habits[i].periodicity)

\* a weekly habit with an entry in the last ISO week of 2026 and one in the
\* first of 2027: two consecutive periods
C11_Witness ==
  \E i \in DOMAIN habits :
    /\ habits[i].periodicity = WEEKLY
    /\ LogSize(completions, i) = 2
    /\ Cardinality(LogPeriods(completions, i, WEEKLY)) = 2
    /\ habits[i].streak = 2

(***************************************************************************)
(* edit_habit, argument by argument                                        *)
(***************************************************************************)
EditTitles == { None, Some(<<" ", " ">>), Some(<<" ", "T", " ">>) }
EditDescriptions == { None, Some(<<" ">>), Some(<<" ", "x", " ">>) }

\* <<title, description, periodicity>> arguments of edit_habit: each value of
\* each argument alone, and combinations of them
EditArgsFull ==
  {<<t, None, None>> : t \in EditTitles} \cup {<<None, d, None>> : d \in EditDescriptions}
    \cup { <<Some(<<" ", "T", " ">>), Some(<<" ">>), Some(<<" ", " ">>)>>,
           <<Some(<<" ", "T", " ">>), Some(<<" ", "x", " ">>), Some(<<"D", "A", "Y">>)>>,
           <<Some(<<" ", " ">>), Some(<<" ">>), Some(<<"W", "e", "e", "k", "l", "y">>)>> }

\* the users of these runs, and the one time their completions are made at
Editors == {1}
EditTime == SampleDts[1]

NextEdit ==
  \/ \E u \in Editors, t \in CreateTitles, d \in CreateDescriptions, p \in CreatePeriodicities :
       CreateHabit(u, t, d, p)
  \/ \E u \in Editors, h \in HabitIds : CompleteHabit(u, h, EditTime)
  \/ \E u \in Editors, h \in HabitIds, a \in EditArgsFull : EditHabit(u, h, a[1], a[2], a[3])

SpecEdit == Init /\ [][NextEdit]_vars

\* the argument is None or blank
Blank(arg) == IF IsNone(arg) THEN TRUE ELSE strip(Val(arg)) = <<>>

\* C12: a successful edit_habit leaves the title as it was when the title
\* argument is None or blank and stores the trimmed argument otherwise; leaves
\* the description as it was when the argument is None and stores the trimmed
\* argument (empty for a blank one) otherwise; leaves the periodicity as it
\* was when the argument is None or blank; and leaves streak and
\* last_completed_at as they were unless the argument names another
\* periodicity than the habit's.
C12_EditIsPartial ==
  (call.op = "edit_habit" /\ call.outcome = "ok") =>
    /\ After.title = IF Blank(call.title) THEN Before.title ELSE strip(Val(call.title))
    /\ After.description = IF IsNone(call.description) THEN Before.description
                           ELSE strip(Val(call.description))
    /\ Blank(call.periodicity) => After.periodicity = Before.periodicity
    /\ (IF Blank(call.periodicity) THEN TRUE
        ELSE Means(Val(call.periodicity), Before.periodicity))
         => /\ After.streak = Before.streak
            /\ After.last_completed_at = Before.last_completed_at

\* a completed habit edited with a new title, a blank description and a
\* blank periodicity: the title is replaced, the description cleared, the
\* streak kept
C12_Witness ==
  /\ call.op = "edit_habit"
  /\ call.outcome = "ok"
  /\ call.title = Some(<<" ", "T", " ">>)
  /\ call.description = Some(<<" ">>)
  /\ call.periodicity = Some(<<" ", " ">>)
  /\ Before.streak = 1
  /\ Before.description = <<"d">>
  /\ After.title = <<"T">>
  /\ After.description = <<>>
  /\ After.streak = 1

longest_step(acc, habit) ==
  IF habit.streak > acc[2] THEN <<Some(habit), habit.streak>> ELSE acc

RECURSIVE longest_from(_, _)
longest_from(acc, list) ==
  IF list = <<>> THEN acc ELSE longest_from(longest_step(acc, Head(list)), Tail(list))

\* longest_streak_overall(habits): <<max_habit, max_streak>>
longest_streak_overall(list) == longest_from(<<None, 0>>, list)

\* group_by_periodicity that puts the newest habit of a bucket first
group_step_newest_first(groups, habit) ==
  LET p == normalize_periodicity(Some(habit.periodicity)) IN
  IF p = Unsupported THEN groups
  ELSE [k \in DOMAIN groups \cup {p} |->
          IF k = p THEN (IF p \in DOMAIN groups THEN <<habit>> \o groups[p] ELSE <<habit>>)
          ELSE groups[k]]

\* group_by_periodicity: one turn of the loop, groups a defaultdict(list)
group_step(groups, habit) ==
  LET p == normalize_periodicity(Some(habit.periodicity)) IN
  IF p = Unsupported THEN groups
  ELSE [k \in DOMAIN groups \cup {p} |->
          IF k = p THEN (IF p \in DOMAIN groups THEN Append(groups[p], habit) ELSE <<habit>>)
          ELSE groups[k]]

RECURSIVE group_from(_, _)
group_from(groups, list) ==
  IF list = <<>> THEN groups ELSE group_from(group_step(groups, Head(list)), Tail(list))

\* group_by_periodicity(habits): a dict from periodicity to list of habits
group_by_periodicity(list) == group_from(<<>>, list)

\* Inputs of the pure functions
MaxList == 3
ListStreaks == {0, 1, 2}

Pads == { <<>>, <<" ">>, <<"\t", "\n">> }

Words ==
  { DAILY, DAY, WEEKLY, WEEK, <<>>, <<"d", "a", "i", "l">>, <<"w", "e", "e", "k", "s">>,
    <<"m", "o", "n", "t", "h", "l", "y">>, <<"d", "a", " ", "y">> }

\* a word in capital letters, and with a capital first letter
upper(s) ==
  [i \in 1..Len(s) |->
     IF \E u \in DOMAIN UpperToLower : UpperToLower[u] = s[i]
       THEN CHOOSE u \in DOMAIN UpperToLower : UpperToLower[u] = s[i]
       ELSE s[i]]
capitalize(s) == IF s = <<>> THEN s ELSE <<upper(s)[1]>> \o Tail(s)

NormalizeInputs ==
  {None} \cup
    {Some(l \o w \o r) : l \in Pads, r \in Pads,
                         w \in Words \cup {upper(x) : x \in Words} \cup {capitalize(x) : x \in Words}}

ListPeriodicities ==
  { DAILY, <<"W", "e", "e", "k", "l", "y">>, <<" ", "D", "A", "Y">>,
    <<"m", "o", "n", "t", "h", "l", "y">> }

\* the lists of up to max habits, their ids descending along the list
HabitLists(max) ==
  UNION { { [i \in 1..n |->
              [id |-> n + 1 - i, user_id |-> 1, title |-> <<"h">>, description |-> <<>>,
               periodicity |-> f[i][1], last_completed_at |-> None, streak |-> f[i][2]]] :
            f \in [1..n -> ListPeriodicities \X ListStreaks] } : n \in 0..max }

\* a call of a pure function, with its argument
PureCall(op, arg, outcome, ret) ==
  /\ Running
  /\ call' = [op |-> op, arg |-> arg, outcome |-> outcome, ret |-> ret]
  /\ UNCHANGED <<habits, completions, nextHabitId, nextCompletionId, failures, lost, prev,
                 inflight>>

NormalizePeriodicity(value) ==
  LET p == normalize_periodicity(value) IN
  IF p = Unsupported THEN PureCall("normalize_periodicity", value, "InvalidPeriodicity", None)
  ELSE PureCall("normalize_periodicity", value, "ok", Some(p))

LongestStreakOverall(list) ==
  PureCall("longest_streak_overall", list, "ok", Some(longest_streak_overall(list)))

GroupByPeriodicity(list) ==
  PureCall("group_by_periodicity", list, "ok", Some(group_by_periodicity(list)))

NextPure ==
  \/ Running /\ \E value \in NormalizeInputs : NormalizePeriodicity(value)
  \/ Running /\ \E list \in HabitLists(MaxList) : LongestStreakOverall(list)
  \/ Running /\ \E list \in HabitLists(MaxList) : GroupByPeriodicity(list)

SpecPure == Init /\ [][NextPure]_vars

\* the character is the letter, in small or capital form
SameLetter(c, letter) == c = letter \/ (c \in DOMAIN UpperToLower /\ UpperToLower[c] = letter)

\* the text is the word, in any casing, with only whitespace around it
Spells(text, word) ==
  \E i \in 1..(Len(text) + 1) :
    LET j == i + Len(word) - 1 IN
    /\ j <= Len(text)
    /\ \A k \in 1..Len(text) : (k < i \/ k > j) => text[k] \in Whitespace
    /\ \A k \in 1..Len(word) : SameLetter(text[i + k - 1], word[k])

Names(text, periodicity) == \E w \in Synonyms(periodicity) : Spells(text, w)

\* C14: normalize_periodicity returns 'daily' for every text that spells
\* daily or day, and 'weekly' for every text that spells weekly or week, in
\* any casing and with whitespace around it; it raises the
\* invalid-periodicity error for every other input, None, the empty and a
\* blank text included; applied to one of its outputs it returns that output.
C14_NormalizeMapsSynonyms ==
  call.op = "normalize_periodicity" =>
    LET text == IF IsNone(call.arg) THEN <<>> ELSE Val(call.arg) IN
    /\ Names(text, DAILY) => (call.outcome = "ok" /\ call.ret = Some(DAILY))
    /\ Names(text, WEEKLY) => (call.outcome = "ok" /\ call.ret = Some(WEEKLY))
    /\ (~Names(text, DAILY) /\ ~Names(text, WEEKLY)) =>
         (call.outcome = "InvalidPeriodicity" /\ call.ret = None)
    /\ call.arg \in {Some(DAILY), Some(WEEKLY)} => call.ret = call.arg

\* WEEK in capitals between whitespace
C14_Witness ==
  /\ call.op = "normalize_periodicity"
  /\ call.arg = Some(<<"\t", "\n", "W", "E", "E", "K", " ">>)
  /\ call.ret = Some(WEEKLY)

\* C15: longest_streak_overall returns <<None, 0>> for the empty list and,
\* for any other list, the first habit of the list whose streak no habit of
\* the list exceeds, together with that streak.
C15_LongestIsFirstOfGreatest ==
  call.op = "longest_streak_overall" =>
    LET list == call.arg
        r == Val(call.ret)
    IN IF list = <<>> THEN r = <<None, 0>>
       ELSE \E i \in 1..Len(list) :
              /\ r = <<Some(list[i]), list[i].streak>>
              /\ \A j \in 1..Len(list) : list[j].streak <= list[i].streak
              /\ \A j \in 1..(i - 1) : list[j].streak < list[i].streak

\* the habits of the list whose periodicity names the given one, in the
\* order of the list
RECURSIVE Bucket(_, _)
Bucket(list, periodicity) ==
  IF list = <<>> THEN <<>>
  ELSE IF Names(Head(list).periodicity, periodicity)
    THEN <<Head(list)>> \o Bucket(Tail(list), periodicity)
  ELSE Bucket(Tail(list), periodicity)

\* C16: group_by_periodicity returns, without an error, a dict whose keys are
\* those of 'daily' and 'weekly' that some habit of the list names, and whose
\* value under a key is the list of the input habits that name it, unchanged
\* and in the order of the input; habits that name neither are in no bucket.
C16_GroupsByNormalizedPeriodicity ==
  call.op = "group_by_periodicity" =>
    /\ call.outcome = "ok"
    /\ DOMAIN Val(call.ret) = {k \in {DAILY, WEEKLY} : Bucket(call.arg, k) # <<>>}
    /\ \A k \in DOMAIN Val(call.ret) : Val(call.ret)[k] = Bucket(call.arg, k)

\* ' DAY', 'monthly', 'daily': one bucket of two habits, the second habit skipped
C16_Witness ==
  /\ call.op = "group_by_periodicity"
  /\ Len(call.arg) = 3
  /\ call.arg[1].periodicity = <<" ", "D", "A", "Y">>
  /\ call.arg[2].periodicity = <<"m", "o", "n", "t", "h", "l", "y">>
  /\ call.arg[3].periodicity = DAILY
  /\ DOMAIN Val(call.ret) = {DAILY}
  /\ Val(call.ret)[DAILY] = <<call.arg[1], call.arg[3]>>

(***************************************************************************)
(* seed_demo.py: seed_demo_data                                            *)
(***************************************************************************)
DrinkWater == <<"D", "r", "i", "n", "k", " ", "W", "a", "t", "e", "r">>

\* the predefined habits: <<title, description, periodicity>>
DemoHabits ==
  << << <<"D", "r", "i", "n", "k", " ", "W", "a", "t", "e", "r">>,
        <<"A", "t", " ", "l", "e", "a", "s", "t", " ", "2", " ", "l", "i", "t", "e", "r", "s", " ", "p", "e", "r", " ", "d", "a", "y">>,
        <<"D", "a", "i", "l", "y">> >>,
     << <<"R", "e", "a", "d", " ", "2", "0", " ", "P", "a", "g", "e", "s">>,
        <<"R", "e", "a", "d", " ", "a", " ", "b", "o", "o", "k", " ", "f", "o", "r", " ", "2", "0", " ", "p", "a", "g", "e", "s">>,
        <<"D", "a", "i", "l", "y">> >>,
     << <<"M", "o", "r", "n", "i", "n", "g", " ", "S", "t", "r", "e", "t", "c", "h">>,
        <<"1", "0", " ", "m", "i", "n", "u", "t", "e", "s", " ", "m", "o", "b", "i", "l", "i", "t", "y">>,
        <<"D", "a", "i", "l", "y">> >>,
     << <<"G", "y", "m", " ", "W", "o", "r", "k", "o", "u", "t">>,
        <<"F", "u", "l", "l", " ", "b", "o", "d", "y", " ", "w", "o", "r", "k", "o", "u", "t">>,
        <<"W", "e", "e", "k", "l", "y">> >>,
     << <<"M", "e", "a", "l", " ", "P", "r", "e", "p">>,
        <<"P", "r", "e", "p", "a", "r", "e", " ", "m", "e", "a", "l", "s", " ", "f", "o", "r", " ", "t", "h", "e", " ", "w", "e", "e", "k">>,
        <<"W", "e", "e", "k", "l", "y">> >> >>

\* the days of tracking data, and the days 'Read 20 Pages' misses
SeedDays == 28
Missed == {6, 13, 20}
NotMissed(i) == i \notin Missed

\* delete_habits_for_user that deletes nothing
delete_no_habits(H, user_id) == H

\* delete_habits_for_user: DELETE FROM habits WHERE user_id = ?
delete_habits_for_user(H, user_id) == [i \in {j \in DOMAIN H : H[j].user_id # user_id} |-> H[i]]

\* day_ts(day_index, hour) and week_ts(week_offset, hour)
day_ts(start, day_index, hour) == Dt(date(plus_days(start, day_index)), hour, start.off)
week_ts(start, week_offset, hour) ==
  Dt(date(plus_days(start, DaysPerWeek * week_offset)), hour, start.off)

\* the habits table after the five create_habit calls, the first id being first
created_habits(H, user_id, first) ==
  [i \in DOMAIN H \cup (first..(first + Len(DemoHabits) - 1)) |->
     IF i >= first
       THEN LET h == DemoHabits[i - first + 1] IN
            new_habit_row(user_id, strip(h[1]), strip(h[2]), normalize_periodicity(Some(h[3])))
       ELSE H[i]]

\* the complete_habit calls in the order they are made: <<habit, completed_at>>,
\* habit the position of the habit in DemoHabits
seed_completions(start) ==
  LET days == [i \in 1..SeedDays |-> i - 1] IN
  [i \in 1..SeedDays |-> <<1, day_ts(start, days[i], 9)>>]
    \o LET kept == SelectSeq(days, NotMissed) IN
       [i \in 1..Len(kept) |-> <<2, day_ts(start, kept[i], 21)>>]
    \o [i \in 1..(SeedDays - 14) |-> <<3, day_ts(start, 13 + i, 7)>>]
    \o [k \in 1..8 |-> IF k % 2 = 1 THEN <<4, week_ts(start, (k - 1) \div 2, 18)>>
                       ELSE <<5, week_ts(start, (k - 1) \div 2, 10)>>]

\* complete_habit of an own habit at an aware time, as a function of the
\* storage S = [habits, completions, nextCompletionId]
completed(S, user_id, habit_id, completed_at) ==
  LET habit == habit_row_to_model(habit_id, S.habits[habit_id])
      periodicity == normalize_periodicity(Some(habit.periodicity))
      streak == new_streak(habit.streak, last_dt_of(habit, S.completions),
                           completed_at, periodicity)
  IN [habits |-> update_habit(S.habits, habit.id, user_id, habit.title, habit.description,
                              habit.periodicity, Some(isoformat(completed_at)), streak),
      completions |-> insert_completion(S.completions, S.nextCompletionId, habit.id,
                                        isoformat(completed_at)),
      nextCompletionId |-> S.nextCompletionId + 1]

\* the complete_habit calls of todo, one after the other; an error ends them
RECURSIVE complete_all(_, _, _, _)
complete_all(S, user_id, first, todo) ==
  IF todo = <<>> THEN S
  ELSE IF ~owned(S.habits, user_id, first + Head(todo)[1] - 1) THEN S
  ELSE complete_all(completed(S, user_id, first + Head(todo)[1] - 1, Head(todo)[2]),
                    user_id, first, Tail(todo))

\* seed_demo_data: the storage after it ran for the demo user at base_now
seeded(H, C, first, nextCid, user_id, base_now) ==
  LET kept == delete_habits_for_user(H, user_id)
      start == plus_days(base_now, 0 - SeedDays)
  IN complete_all([habits |-> created_habits(kept, user_id, first),
                   completions |-> cascade(C, kept), nextCompletionId |-> nextCid],
                  user_id, first, seed_completions(start))

\* now_local() at the seeding: Fri 2027-01-15 14:00 and Mon 2027-01-25 23:00,
\* local time; the four weeks before the first hold the turn of the year
SeedNows == { Dt(739996, 14, LocalOffset), Dt(740006, 23, LocalOffset) }

\* seed_demo_data(), the demo user being user_id and now_local() being base_now
SeedDemoData(user_id, base_now) ==
  /\ Running
  /\ nextHabitId <= MaxHabits + Len(DemoHabits)
  /\ LET S == seeded(habits, completions, nextHabitId, nextCompletionId, user_id, base_now)
     IN /\ habits' = S.habits
        /\ completions' = S.completions
        /\ nextCompletionId' = S.nextCompletionId
  /\ nextHabitId' = nextHabitId + Len(DemoHabits)
  /\ Called("seed_demo_data", user_id, 0, None, None, None, Some(base_now), "ok", None)
  /\ lost' = None
  /\ UNCHANGED <<failures, inflight>>

\* Runs of create_habit, complete_habit and seed_demo_data
NextSeed ==
  \/ \E u \in Users, t \in CreateTitles, d \in CreateDescriptions, p \in CreatePeriodicities :
       CreateHabit(u, t, d, p)
  \/ \E u \in Users, h \in HabitIds : CompleteHabit(u, h, EditTime)
  \/ \E u \in Users, base_now \in SeedNows : SeedDemoData(u, base_now)

SpecSeed == Init /\ [][NextSeed]_vars

\* the habits of the demo user of the observed seed_demo_data
DemoIds == {i \in DOMAIN habits : habits[i].user_id = call.user_id}

\* C17: after seed_demo_data, whatever the storage held before, the demo user
\* has exactly five habits, three daily and two weekly; exactly one of them is
\* 'Drink Water', with exactly 28 log entries and a streak of at least 20;
\* each weekly one has exactly four log entries.
C17_SeedLeavesFiveHabits ==
  call.op = "seed_demo_data" =>
    /\ Cardinality(DemoIds) = 5
    /\ Cardinality({i \in DemoIds : habits[i].periodicity = DAILY}) = 3
    /\ Cardinality({i \in DemoIds : habits[i].periodicity = WEEKLY}) = 2
    /\ Cardinality({i \in DemoIds : habits[i].title = DrinkWater}) = 1
    /\ \A i \in DemoIds :
         /\ habits[i].title = DrinkWater =>
              (LogSize(completions, i) = 28 /\ habits[i].streak >= 20)
         /\ habits[i].periodicity = WEEKLY => LogSize(completions, i) = 4

\* a second seeding: the demo user had the habits and logs of the first
C17_Witness ==
  /\ call.op = "seed_demo_data"
  /\ \E i \in DOMAIN prev.habits :
       /\ prev.habits[i].user_id = call.user_id
       /\ prev.habits[i].title = DrinkWater
       /\ LogSize(prev.completions, i) = 28
  /\ \E i \in DOMAIN prev.habits : prev.habits[i].user_id # call.user_id
  /\ \E i \in DemoIds : habits[i].title = DrinkWater /\ habits[i].streak = 28

(***************************************************************************)
(* complete_habit on a habit whose record and log are out of step          *)
(***************************************************************************)
\* the log entries a habit has before the call
MaxLog == 2

\* Sat 2027-01-02 08:00+12:00, which is Fri 2027-01-01 20:00Z and 21:00 of
\* Friday on the local clock; Fri 2027-01-01 23:00Z, which is 00:00 of
\* Saturday on the local clock; Sat 2027-01-02 10:00Z; Mon 2027-01-04 10:00Z
LogTimes == { Dt(739983, 8, 12), Dt(739982, 23, 0), Dt(739983, 10, 0), Dt(739985, 10, 0) }

\* the completions of a habit before the call, in the order they were made
Logs == UNION { [1..n -> LogTimes] : n \in 0..MaxLog }

\* the storage after user 1 created habit 1 with the periodicity and
\* completed it at the times of the log, one after the other
StorageAfter(periodicity, log) ==
  complete_all([habits |-> [i \in {1} |-> new_habit_row(1, <<"W">>, <<"d">>, periodicity)],
                completions |-> {}, nextCompletionId |-> 1],
               1, 1, [i \in 1..Len(log) |-> <<1, log[i]>>])

\* the name of the other periodicity
Other(periodicity) == IF periodicity = DAILY THEN WEEKLY ELSE DAILY

\* the habits table after edit_habit gave habit 1 the other periodicity
Switched(H) ==
  LET habit == edited(habit_row_to_model(1, H[1]), None, None, Some(Other(H[1].periodicity)))
  IN update_habit(H, 1, 1, habit.title, habit.description, habit.periodicity, None, habit.streak)

\* The storage after create_habit, the complete_habit calls of a log and,
\* possibly, an edit_habit to the other periodicity
InitLast ==
  /\ \E periodicity \in {DAILY, WEEKLY}, log \in Logs, switch \in BOOLEAN :
       LET S == StorageAfter(periodicity, log) IN
       /\ habits = IF switch THEN Switched(S.habits) ELSE S.habits
       /\ completions = S.completions
       /\ nextCompletionId = S.nextCompletionId
  /\ nextHabitId = 2
  /\ failures = 0
  /\ lost = None
  /\ call = NoCall
  /\ prev = NoPrev
  /\ inflight = <<>>

\* complete_habit(1, completed_at=completed_at) by user 1, the one call of a run
CompleteOnce(completed_at) ==
  /\ Running
  /\ LET S == completed([habits |-> habits, completions |-> completions,
                         nextCompletionId |-> nextCompletionId], 1, 1, completed_at)
     IN /\ habits' = S.habits
        /\ completions' = S.completions
        /\ nextCompletionId' = S.nextCompletionId
  /\ call' = [op |-> "complete_habit", user_id |-> 1, habit_id |-> 1, title |-> None,
              description |-> None, periodicity |-> None, at |-> Some(completed_at),
              outcome |-> "ok", ret |-> Some(nextCompletionId), lost |-> lost]
  /\ prev' = [habits |-> habits, completions |-> completions]
  /\ UNCHANGED <<nextHabitId, failures, lost, inflight>>

NextLast == \E at \in LogTimes : CompleteOnce(at)

SpecLast == InitLast /\ [][NextLast]_vars

\* the latest of the instants of a habit's log entries, as a datetime
MostRecent(C, habit_id) ==
  LET rows == list_completions(C, habit_id)
      r == CHOOSE x \in rows :
             \A y \in rows : Instant(Val(parse_iso_dt(Some(y.completed_at))))
                               <= Instant(Val(parse_iso_dt(Some(x.completed_at))))
  IN Val(parse_iso_dt(Some(r.completed_at)))

\* C18: a successful complete_habit computes the streak against lastDt: the
\* habit's last_completed_at when it is set; nothing, giving streak 1, when
\* it is absent and the habit's log is empty; the most recent entry of the
\* log when it is absent and the log is not empty; against a lastDt the
\* stored streak is kept in the same period, incremented in the following
\* period and replaced by 1 otherwise.
C18_LastDtIsMostRecentEntry ==
  CompletedOk =>
    LET periodicity == normalize_periodicity(Some(Before.periodicity))
        lastDt == IF ~IsNone(Before.last_completed_at) THEN Before.last_completed_at
                  ELSE IF list_completions(prev.completions, call.habit_id) = {} THEN None
                  ELSE Some(MostRecent(prev.completions, call.habit_id))
    IN After.streak =
         IF IsNone(lastDt) THEN 1
         ELSE IF SamePeriod(Val(lastDt), Val(call.at), periodicity) THEN Before.streak
         ELSE IF FollowingPeriod(Val(lastDt), Val(call.at), periodicity) THEN Before.streak + 1
         ELSE 1

(***************************************************************************)
(* Completions out of order                                                *)
(***************************************************************************)
\* the observed call is a complete_habit of an own habit, at an aware time
\* earlier than the habit's last_completed_at
Backdated ==
  /\ call.op = "complete_habit"
  /\ ~NotOwnHabit
  /\ Val(call.at).aware
  /\ ~IsNone(Before.last_completed_at)
  /\ Instant(Val(call.at)) < Instant(Val(Before.last_completed_at))

\* C19: complete_habit at a time earlier than the habit's last_completed_at
\* is not rejected; it appends the log entry and sets last_completed_at to
\* the earlier time; it sets streak to 1 when the time lies in an earlier
\* period than last_completed_at and leaves streak as it was when it lies in
\* the same period; one of the two is the case, the rule that adds one to
\* the streak never applies.
C19_BackdatedNeverIncrements ==
  (Backdated /\ call.outcome # "StorageError") =>
    LET periodicity == normalize_periodicity(Some(Before.periodicity))
        was == PeriodIndex(Val(Before.last_completed_at), periodicity)
        now == PeriodIndex(Val(call.at), periodicity)
    IN /\ call.outcome = "ok"
       /\ OneEntryAppended
       /\ After.last_completed_at = call.at
       /\ now < was => After.streak = 1
       /\ now = was => After.streak = Before.streak
       /\ now <= was
       /\ After.streak \in {1, Before.streak}

\* a weekly habit completed on Friday and then, in the same ISO week, at a
\* time of the Thursday before
C19_Witness ==
  /\ Backdated
  /\ call.outcome = "ok"
  /\ Before.periodicity = WEEKLY
  /\ LocalDay(Val(call.at)) < LocalDay(Val(Before.last_completed_at))
  /\ LocalWeek(Val(call.at)) = LocalWeek(Val(Before.last_completed_at))
  /\ Before.streak = 1
  /\ After.streak = 1
  /\ After.last_completed_at = call.at


(***************************************************************************)
(* Two complete_habit calls on one habit at the same time.  Every db.py    *)
(* function opens its own connection and commits before it returns, so a   *)
(* call is a sequence of separate statements: get_habit, then              *)
(* get_last_completion when the record has no last completion, then        *)
(* insert_completion, then update_habit with what the call read and        *)
(* computed.  The statements of the two calls interleave in any order.     *)
(***************************************************************************)
Procs == {1, 2}

\* a call that has not started: complete_habit(1, completed_at=completed_at)
Started(completed_at) ==
  [pc |-> "get_habit", completed_at |-> completed_at, habit |-> None, last_dt |-> None]

\* The storage after create_habit, the complete_habit calls of a log and,
\* possibly, an edit_habit to the other periodicity; two calls by user 1
\* are about to start
InitRace ==
  /\ \E periodicity \in {DAILY, WEEKLY}, log \in Logs, switch \in BOOLEAN :
       LET S == StorageAfter(periodicity, log) IN
       /\ habits = IF switch THEN Switched(S.habits) ELSE S.habits
       /\ completions = S.completions
       /\ nextCompletionId = S.nextCompletionId
  /\ nextHabitId = 2
  /\ failures = 0
  /\ lost = None
  /\ call = NoCall
  /\ prev = [habits |-> habits, completions |-> completions]
  /\ inflight \in [Procs -> {Started(at) : at \in LogTimes}]

\* habit = self.get_habit(habit_id); last_dt = habit.last_completed_at
StepGetHabit(p) ==
  /\ inflight[p].pc = "get_habit"
  /\ owned(habits, 1, 1)
  /\ LET habit == habit_row_to_model(1, habits[1]) IN
     inflight' = [inflight EXCEPT ![p] =
                    [@ EXCEPT !.pc = IF IsNone(habit.last_completed_at)
                                       THEN "get_last_completion"
                                       ELSE "insert_completion",
                              !.habit = Some(habit),
                              !.last_dt = habit.last_completed_at]]
  /\ UNCHANGED <<habits, completions, nextHabitId, nextCompletionId, failures, lost, call, prev>>

\* if last_dt is None: last_iso = db.get_last_completion(habit.id) ...
StepGetLastCompletion(p) ==
  /\ inflight[p].pc = "get_last_completion"
  /\ inflight' = [inflight EXCEPT ![p] =
                    [@ EXCEPT !.pc = "insert_completion",
                              !.last_dt = parse_iso_dt(get_last_completion(completions, 1))]]
  /\ UNCHANGED <<habits, completions, nextHabitId, nextCompletionId, failures, lost, call, prev>>

\* completion_id = db.insert_completion(habit.id, completed_at.isoformat())
StepInsertCompletion(p) ==
  /\ inflight[p].pc = "insert_completion"
  /\ completions' = insert_completion(completions, nextCompletionId, Val(inflight[p].habit).id,
                                      isoformat(inflight[p].completed_at))
  /\ nextCompletionId' = nextCompletionId + 1
  /\ inflight' = [inflight EXCEPT ![p].pc = "update_habit"]
  /\ UNCHANGED <<habits, nextHabitId, failures, lost, call, prev>>

\* db.update_habit(...) with the title, description and periodicity the
\* call read and the streak it computed from what it read
StepUpdateHabit(p) ==
  /\ inflight[p].pc = "update_habit"
  /\ LET habit == Val(inflight[p].habit)
         periodicity == normalize_periodicity(Some(habit.periodicity))
         streak == new_streak(habit.streak, inflight[p].last_dt, inflight[p].completed_at,
                              periodicity)
     IN habits' = update_habit(habits, habit.id, 1, habit.title, habit.description,
                               habit.periodicity, Some(isoformat(inflight[p].completed_at)),
                               streak)
  /\ inflight' = [inflight EXCEPT ![p].pc = "returned"]
  /\ UNCHANGED <<completions, nextHabitId, nextCompletionId, failures, lost, call, prev>>

NextRace ==
  \E p \in Procs :
    \/ StepGetHabit(p)
    \/ StepGetLastCompletion(p)
    \/ StepInsertCompletion(p)
    \/ StepUpdateHabit(p)

SpecRace == InitRace /\ [][NextRace]_vars

\* both calls have returned
BothReturned == \A p \in Procs : inflight[p].pc = "returned"

\* the habit record after the two calls ran one after the other from the
\* storage they started from, the call of process p first
OneAfterTheOther(p, q) ==
  LET S0 == [habits |-> prev.habits, completions |-> prev.completions,
             nextCompletionId |-> nextCompletionId]
      S1 == completed(S0, 1, 1, inflight[p].completed_at)
      S2 == completed(S1, 1, 1, inflight[q].completed_at)
  IN S2.habits[1]

\* what a call read is what the storage held before both calls
ReadTheStart(p) ==
  /\ inflight[p].habit = Some(habit_row_to_model(1, prev.habits[1]))
  /\ inflight[p].last_dt = last_dt_of(habit_row_to_model(1, prev.habits[1]), prev.completions)

\* the rows the two calls added to the log
Added == completions \ prev.completions

\* C20: when two concurrent complete_habit calls on a habit have both
\* returned, the log has one new entry for each of them, whatever the
\* interleaving was, and the habit record is the one the call that updated
\* last wrote: its last_completed_at is that call's timestamp and its
\* streak the streak that call computed from what it had read, the other
\* call's update being overwritten.
C20_ConcurrentCompletionsRace ==
  BothReturned =>
    /\ Cardinality(Added) = 2
    /\ \A p \in Procs :
         \E r \in Added : /\ r.habit_id = 1
                          /\ r.completed_at = isoformat(inflight[p].completed_at)
    /\ \E p \in Procs :
         LET habit == Val(inflight[p].habit) IN
         /\ habits[1].last_completed_at = Some(isoformat(inflight[p].completed_at))
         /\ habits[1].streak =
              new_streak(habit.streak, inflight[p].last_dt, inflight[p].completed_at,
                         normalize_periodicity(Some(habit.periodicity)))

\* both calls read the habit before either wrote it, and the record they
\* leave is the result of neither order of the two calls: a daily habit
\* with a streak of 1 from the day before, completed twice at once
C20_Witness ==
  /\ BothReturned
  /\ \A p \in Procs : ReadTheStart(p)
  /\ prev.habits[1].streak = 1
  /\ Cardinality(Added) = 2
  /\ \A p, q \in Procs :
       p # q =>
         <<habits[1].streak, habits[1].last_completed_at>>
           # <<OneAfterTheOther(p, q).streak, OneAfterTheOther(p, q).last_completed_at>>

(***************************************************************************)
(* is_next_period for weekly habits around the turn of the year            *)
(***************************************************************************)
\* the weeks taken on each side of a January 1st
WeekSpan == 2

\* 2024 and 2025 have 52 ISO weeks and 2026 has 53; 2024-12-30 and
\* 2025-12-29 are in week 1 of the next year, 2027-01-01 to 03 in 2026-W53
TurnYears == {2025, 2026, 2027}

\* 00:00Z and 23:00Z (the next day on the local clock) of the days around
\* each turn of the year, and one datetime without tzinfo
WeekTimes(span) ==
  { Dt(DaysBeforeYear(y) + 1 + d, h, 0) :
      y \in TurnYears, d \in (0 - DaysPerWeek * span)..(DaysPerWeek * span), h \in {0, 23} }
    \cup { NaiveDt(DaysBeforeYear(2027) + 1, 9) }

\* is_next_period(prev, curr, periodicity)
IsNextPeriod(prv, curr, periodicity) ==
  IF ~prv.aware \/ ~curr.aware
    THEN PureCall("is_next_period", <<prv, curr, periodicity>>, "ValueError", None)
    ELSE PureCall("is_next_period", <<prv, curr, periodicity>>, "ok",
                  Some(is_next_period(prv, curr, periodicity)))

NextWeek == Running /\ \E prv, curr \in WeekTimes(WeekSpan) : IsNextPeriod(prv, curr, WEEKLY)

SpecWeek == Init /\ [][NextWeek]_vars

\* an is_next_period call for a weekly habit that returned
WeeklyAnswer ==
  /\ call.op = "is_next_period"
  /\ call.arg[3] = WEEKLY
  /\ call.outcome = "ok"

\* C21: for weekly periodicity and timezone-aware datetimes, is_next_period
\* is true exactly when the ISO (year, week) of curr on the local clock is
\* the ISO week right after that of prev, week 1 of the next ISO year coming
\* after week 52 or 53 of a year, whichever is its last; that is exactly when
\* curr lies in the Monday-to-Sunday week after the one of prev.  It is false
\* for the same week, an earlier week and two or more weeks later.
C21_WeeklyNextIsFollowingIsoWeek ==
  /\ (call.op = "is_next_period" /\ call.arg[1].aware /\ call.arg[2].aware)
       => call.outcome = "ok"
  /\ WeeklyAnswer =>
       LET prv == call.arg[1]
           curr == call.arg[2]
           gap == PeriodIndex(curr, WEEKLY) - PeriodIndex(prv, WEEKLY)
       IN /\ Val(call.ret) = (LocalWeek(curr) = WeekAfter(LocalWeek(prv)))
          /\ Val(call.ret) = (gap = 1)
          /\ (LocalWeek(curr) = LocalWeek(prv)) = (gap = 0)
          /\ (gap <= 0 \/ gap >= 2) => Val(call.ret) = FALSE
          /\ (Val(call.ret) /\ LocalWeek(curr)[1] # LocalWeek(prv)[1]) =>
               /\ LocalWeek(curr) = <<LocalWeek(prv)[1] + 1, 1>>
               /\ LocalWeek(prv)[2] \in {52, 53}

\* from week 53 of 2026 to week 1 of 2027: true
C21_Witness ==
  /\ WeeklyAnswer
  /\ LocalWeek(call.arg[1]) = <<2026, 53>>
  /\ LocalWeek(call.arg[2]) = <<2027, 1>>
  /\ call.ret = Some(TRUE)

\* from week 52 of 2024 to week 1 of 2025: true
C21_WitnessWeek52 ==
  /\ WeeklyAnswer
  /\ LocalWeek(call.arg[1]) = <<2024, 52>>
  /\ LocalWeek(call.arg[2]) = <<2025, 1>>
  /\ call.ret = Some(TRUE)

\* from week 52 of 2026 to week 1 of 2027, two weeks later: false
C21_WitnessTwoWeeks ==
  /\ WeeklyAnswer
  /\ LocalWeek(call.arg[1]) = <<2026, 52>>
  /\ LocalWeek(call.arg[2]) = <<2027, 1>>
  /\ call.ret = Some(FALSE)

(***************************************************************************)
(* Two HabitManager calls of any kind at the same time, each a sequence of *)
(* db.py statements: create_habit is insert_habit and get_habit;           *)
(* complete_habit is get_habit, get_last_completion when the record has no *)
(* last completion, insert_completion and update_habit; edit_habit is      *)
(* get_habit, update_habit and get_habit; delete_habit is one DELETE.      *)
(* The calls are on habit 1, by its owner.                                 *)
(***************************************************************************)
\* a call that has not started
NewCall(op, completed_at, title, description, periodicity) ==
  [op |-> op,
   pc |-> IF op = "create_habit" THEN "insert_habit"
          ELSE IF op = "delete_habit" THEN "delete_habit" ELSE "get_habit",
   habit_id |-> 1, completed_at |-> completed_at, title |-> title,
   description |-> description, periodicity |-> periodicity,
   habit |-> None, last_dt |-> None]

ConcCalls ==
  { NewCall("complete_habit", Some(at), None, None, None) : at \in LogTimes }
    \cup { NewCall("edit_habit", None, Some(<<"T">>), None, None),
           NewCall("edit_habit", None, None, Some(<<"e">>), None),
           NewCall("edit_habit", None, Some(<<" ", "T">>), Some(<<"e">>), None),
           NewCall("edit_habit", None, None, None, Some(DAILY)),
           NewCall("edit_habit", None, None, None, Some(WEEKLY)),
           NewCall("delete_habit", None, None, None, None),
           NewCall("create_habit", None, Some(<<"N">>), Some(<<"n">>), Some(WEEKLY)) }

\* The storage after create_habit, the complete_habit calls of a log and,
\* possibly, an edit_habit to the other periodicity; two calls by user 1
\* are about to start
InitConc ==
  /\ \E periodicity \in {DAILY, WEEKLY}, log \in Logs, switch \in BOOLEAN :
       LET S == StorageAfter(periodicity, log) IN
       /\ habits = IF switch THEN Switched(S.habits) ELSE S.habits
       /\ completions = S.completions
       /\ nextCompletionId = S.nextCompletionId
  /\ nextHabitId = 2
  /\ failures = 0
  /\ lost = None
  /\ call = NoCall
  /\ prev = [habits |-> habits, completions |-> completions]
  /\ inflight \in [Procs -> ConcCalls]

\* the call of process p moves on
Goes(p, pc) == inflight' = [inflight EXCEPT ![p].pc = pc]

\* create_habit: db.insert_habit(user_id, title.strip(), description.strip(), ...)
ConcInsertHabit(p) ==
  LET c == inflight[p] IN
  /\ c.pc = "insert_habit"
  /\ habits' = [i \in DOMAIN habits \cup {nextHabitId} |->
                  IF i = nextHabitId
                    THEN new_habit_row(1, strip(Val(c.title)), strip(Val(c.description)),
                                       normalize_periodicity(c.periodicity))
                    ELSE habits[i]]
  /\ nextHabitId' = nextHabitId + 1
  /\ inflight' = [inflight EXCEPT ![p] = [@ EXCEPT !.pc = "get_habit_again",
                                                   !.habit_id = nextHabitId]]
  /\ UNCHANGED <<completions, nextCompletionId, failures, lost, call, prev>>

\* complete_habit, edit_habit: habit = self.get_habit(habit_id)
ConcGetHabit(p) ==
  LET c == inflight[p] IN
  /\ c.pc = "get_habit"
  /\ IF ~owned(habits, 1, c.habit_id) THEN Goes(p, "raised")
     ELSE LET habit == habit_row_to_model(c.habit_id, habits[c.habit_id]) IN
          inflight' = [inflight EXCEPT ![p] =
                         [@ EXCEPT !.pc = IF c.op = "edit_habit" THEN "update_habit"
                                          ELSE IF IsNone(habit.last_completed_at)
                                            THEN "get_last_completion"
                                          ELSE "insert_completion",
                                   !.habit = Some(habit),
                                   !.last_dt = habit.last_completed_at]]
  /\ UNCHANGED <<habits, completions, nextHabitId, nextCompletionId, failures, lost, call, prev>>

\* complete_habit: last_iso = db.get_last_completion(habit.id)
ConcGetLastCompletion(p) ==
  LET c == inflight[p] IN
  /\ c.pc = "get_last_completion"
  /\ inflight' = [inflight EXCEPT ![p] =
                    [@ EXCEPT !.pc = "insert_completion",
                              !.last_dt = parse_iso_dt(get_last_completion(completions,
                                                                           c.habit_id))]]
  /\ UNCHANGED <<habits, completions, nextHabitId, nextCompletionId, failures, lost, call, prev>>

\* complete_habit: db.insert_completion(habit.id, completed_at.isoformat());
\* sqlite3.IntegrityError when the habit row is gone
ConcInsertCompletion(p) ==
  LET c == inflight[p] IN
  /\ c.pc = "insert_completion"
  /\ IF foreign_key_ok(habits, c.habit_id)
       THEN /\ completions' = insert_completion(completions, nextCompletionId, c.habit_id,
                                                isoformat(Val(c.completed_at)))
            /\ nextCompletionId' = nextCompletionId + 1
            /\ Goes(p, "update_habit")
       ELSE /\ UNCHANGED <<completions, nextCompletionId>>
            /\ Goes(p, "raised")
  /\ UNCHANGED <<habits, nextHabitId, failures, lost, call, prev>>

\* complete_habit, edit_habit: db.update_habit(...) with the fields of the
\* habit the call read, changed as the call changes them
ConcUpdateHabit(p) ==
  LET c == inflight[p]
      read == Val(c.habit)
      habit == IF c.op = "edit_habit"
                 THEN edited(read, c.title, c.description, c.periodicity)
                 ELSE [read EXCEPT
                         !.last_completed_at = c.completed_at,
                         !.streak = new_streak(read.streak, c.last_dt, Val(c.completed_at),
                                               normalize_periodicity(Some(read.periodicity)))]
  IN
  /\ c.pc = "update_habit"
  /\ habits' = update_habit(habits, habit.id, 1, habit.title, habit.description,
                            habit.periodicity,
                            IF IsNone(habit.last_completed_at) THEN None
                            ELSE Some(isoformat(Val(habit.last_completed_at))),
                            habit.streak)
  /\ Goes(p, IF c.op = "edit_habit" THEN "get_habit_again" ELSE "returned")
  /\ UNCHANGED <<completions, nextHabitId, nextCompletionId, failures, lost, call, prev>>

\* create_habit, edit_habit: return self.get_habit(habit_id)
ConcGetHabitAgain(p) ==
  LET c == inflight[p] IN
  /\ c.pc = "get_habit_again"
  /\ Goes(p, IF owned(habits, 1, c.habit_id) THEN "returned" ELSE "raised")
  /\ UNCHANGED <<habits, completions, nextHabitId, nextCompletionId, failures, lost, call, prev>>

\* delete_habit: DELETE FROM habits WHERE id = ? AND user_id = ?, and the cascade
ConcDeleteHabit(p) ==
  LET c == inflight[p] IN
  /\ c.pc = "delete_habit"
  /\ habits' = delete_habit_rows(habits, c.habit_id, 1)
  /\ completions' = cascade(completions, habits')
  /\ Goes(p, "returned")
  /\ UNCHANGED <<nextHabitId, nextCompletionId, failures, lost, call, prev>>

NextConc ==
  \E p \in Procs :
    \/ ConcInsertHabit(p)
    \/ ConcGetHabit(p)
    \/ ConcGetLastCompletion(p)
    \/ ConcInsertCompletion(p)
    \/ ConcUpdateHabit(p)
    \/ ConcGetHabitAgain(p)
    \/ ConcDeleteHabit(p)

SpecConc == InitConc /\ [][NextConc]_vars

\* the call of process p is over
Over(p) == inflight[p].pc \in {"returned", "raised"}

\* the number of entries of a habit's log
LogCount(habit_id) == Cardinality(list_completions(completions, habit_id))

\* C22: in every state, whatever calls ran before and however the statements
\* of two concurrent create_habit, complete_habit, edit_habit and
\* delete_habit calls interleave, the streak of every stored habit is at
\* least 0 and at most the number of entries of that habit's log.
C22_StreakWithinLogSize ==
  \A i \in DOMAIN habits :
    /\ habits[i].streak >= 0
    /\ habits[i].streak <= LogCount(i)

\* two concurrent complete_habit calls have both added one to a streak of 1
\* that they both read, and the log has three entries
C22_Witness ==
  /\ \A p \in Procs : inflight[p].op = "complete_habit" /\ inflight[p].pc = "returned"
  /\ \A p \in Procs : Val(inflight[p].habit).streak = 1
  /\ 1 \in DOMAIN habits
  /\ habits[1].streak = 2
  /\ LogCount(1) = 3

\* the bound is met: a streak of 2 over a log of two entries, while the
\* other call has started and not finished
C22_WitnessTight ==
  /\ 1 \in DOMAIN habits
  /\ habits[1].streak = 2
  /\ LogCount(1) = 2
  /\ \E p \in Procs : ~Over(p) /\ ~IsNone(inflight[p].habit)

\* C23: in every state, whatever calls ran before and however the statements
\* of two concurrent calls interleave, a habit whose stored
\* last_completed_at is set has an entry with exactly that text in its log.
C23_LastCompletedAtIsLogged ==
  \A i \in DOMAIN habits :
    ~IsNone(habits[i].last_completed_at) =>
      \E r \in list_completions(completions, i) :
        r.completed_at = Val(habits[i].last_completed_at)

\* an edit_habit that read the habit before a concurrent complete_habit
\* wrote it has written back the last_completed_at it read, a time with an
\* offset of +12:00, in place of that call's
C23_Witness ==
  \E p, q \in Procs :
    /\ inflight[p].op = "edit_habit" /\ inflight[p].pc = "returned"
    /\ inflight[q].op = "complete_habit" /\ inflight[q].pc = "returned"
    /\ 1 \in DOMAIN habits
    /\ ~IsNone(habits[1].last_completed_at)
    /\ habits[1].last_completed_at # Some(isoformat(Val(inflight[q].completed_at)))
    /\ Val(habits[1].last_completed_at)[2] = <<12>>

\* a complete_habit call that has read its habit
HasRead(p) == inflight[p].op = "complete_habit" /\ ~IsNone(inflight[p].habit)

C24_WitnessCascade ==
  \E p, q \in Procs :
    /\ HasRead(p) /\ inflight[p].pc = "returned"
    /\ inflight[q].op = "delete_habit" /\ inflight[q].pc = "returned"
    /\ nextCompletionId = Cardinality(prev.completions) + 2
    /\ completions = {}
    /\ habits = <<>>

\* process p ran an edit_habit of title or description only and process q a
\* complete_habit, on habit 1; both have returned and the habit is stored
EditAndComplete(p, q) ==
  /\ inflight[p].op = "edit_habit" /\ IsNone(inflight[p].periodicity)
  /\ inflight[q].op = "complete_habit"
  /\ inflight[p].pc = "returned" /\ inflight[q].pc = "returned"
  /\ 1 \in DOMAIN habits

\* the title and the description an edit_habit call asks for, given the ones
\* of the habit it applies to (a blank title asks for no change)
AskedTitle(c, title) ==
  IF IsNone(c.title) THEN title
  ELSE IF strip(Val(c.title)) = <<>> THEN title
  ELSE strip(Val(c.title))
AskedDescription(c, description) ==
  IF IsNone(c.description) THEN description ELSE strip(Val(c.description))

\* the streak a complete_habit call computed from what it read
ComputedStreak(c) ==
  new_streak(Val(c.habit).streak, c.last_dt, Val(c.completed_at),
             normalize_periodicity(Some(Val(c.habit).periodicity)))

\* C25 as claimed: after an edit_habit of title or description only and a
\* concurrent complete_habit on the same habit, in every interleaving the
\* stored streak and last_completed_at are the ones complete_habit wrote and
\* the stored title and description are the edited ones.
C25_Claimed_NeitherOverwritesTheOther ==
  \A p, q \in Procs :
    EditAndComplete(p, q) =>
      /\ habits[1].last_completed_at = Some(isoformat(Val(inflight[q].completed_at)))
      /\ habits[1].streak = ComputedStreak(inflight[q])
      /\ habits[1].title = AskedTitle(inflight[p], prev.habits[1].title)
      /\ habits[1].description = AskedDescription(inflight[p], prev.habits[1].description)

\* C25: after an edit_habit of title or description only and a concurrent
\* complete_habit on the same habit, the stored record is, in all of title,
\* description, streak and last_completed_at, the record of the call whose
\* update_habit ran last, which writes every field: either the streak and
\* last_completed_at of complete_habit with the title and description that
\* call had read, or the edited title and description with the streak and
\* last_completed_at that edit_habit had read.  The completion is in the log
\* in every interleaving.
C25_LastUpdateWritesEveryField ==
  \A p, q \in Procs :
    EditAndComplete(p, q) =>
      LET e == inflight[p]
          c == inflight[q]
          row == habits[1]
      IN /\ \/ /\ row.last_completed_at = Some(isoformat(Val(c.completed_at)))
               /\ row.streak = ComputedStreak(c)
               /\ row.title = Val(c.habit).title
               /\ row.description = Val(c.habit).description
            \/ /\ row.title = AskedTitle(e, Val(e.habit).title)
               /\ row.description = AskedDescription(e, Val(e.habit).description)
               /\ row.streak = Val(e.habit).streak
               /\ row.last_completed_at =
                    (IF IsNone(Val(e.habit).last_completed_at) THEN None
                     ELSE Some(isoformat(Val(Val(e.habit).last_completed_at))))
         /\ completions = prev.completions
                            \cup {[id |-> nextCompletionId - 1, habit_id |-> 1,
                                   completed_at |-> isoformat(Val(c.completed_at))]}

\* edit_habit read the habit, complete_habit ran and raised the streak from
\* 1 to 2, then edit_habit wrote: the streak is 1 again and
\* last_completed_at the old one, with two entries in the log
C25_Witness ==
  \E p, q \in Procs :
    /\ EditAndComplete(p, q)
    /\ prev.habits[1].streak = 1
    /\ ComputedStreak(inflight[q]) = 2
    /\ habits[1].streak = 1
    /\ habits[1].last_completed_at = prev.habits[1].last_completed_at
    /\ habits[1].title = <<"T">>
    /\ LogCount(1) = 2

\* complete_habit read the habit, edit_habit ran, then complete_habit wrote:
\* the title and the description are the old ones again
C25_WitnessStaleTitle ==
  \E p, q \in Procs :
    /\ EditAndComplete(p, q)
    /\ inflight[p].title = Some(<<" ", "T">>)
    /\ habits[1].title = prev.habits[1].title
    /\ habits[1].description = prev.habits[1].description
    /\ habits[1].streak = ComputedStreak(inflight[q])
    /\ habits[1].streak = 2

====
